---- MODULE Spec2Model ----
(***************************************************************************)
(* A model of naev's OpenGL context layer (src/src/context.rs): the        *)
(* cross-thread context guard (SafeContext / ContextWrap), the deferred    *)
(* destruction queue (MESSAGE_QUEUE, Context::execute_messages) and the    *)
(* write-once CONTEXT slot filled by Context::new.                         *)
(*                                                                         *)
(* Four specifications share the variables:                                *)
(*   Spec           SafeContext values used freely by every thread         *)
(*   SpecLifecycle  the lifecycle of the access guards: the owner builds   *)
(*                  the one SafeContext, any thread locks it and drops it  *)
(*   SpecQueue      pushes onto MESSAGE_QUEUE and execute_messages calls   *)
(*   SpecNew        calls of Context::new publishing into CONTEXT          *)
(*                                                                         *)
(* Threads are OS threads. A panic ends its thread ("panicked"); a panic   *)
(* raised while the thread already unwinds aborts the process.             *)
(***************************************************************************)
EXTENDS Integers, Sequences, FiniteSets, TLC

VARIABLES
    pc,             \* thread -> where the thread is in the operation it runs
    on,             \* thread -> the SafeContext its current operation is on
    panicking,      \* thread -> TRUE while the thread unwinds from a panic
    guardLog,       \* thread -> what the drop of its latest guard has done
    current,        \* the threads the GL context is current to (the driver)
    scState,        \* SafeContext -> "unborn" | "alive" | "dropping" | "dead"
    mutexHolder,    \* SafeContext -> the thread holding its Mutex, or None
    poisoned,       \* SafeContext -> the Mutex's poison flag
    aborted,        \* the process aborted (a panic while panicking)
    last,           \* the step just taken: operation, thread, currency before
    MESSAGE_QUEUE,  \* the Vec<Message> inside the static Mutex
    queueLock,      \* the thread holding MESSAGE_QUEUE's lock, or None
    pending,        \* thread -> the message it is about to push: <<>> or <<msg>>
    pushed,         \* the messages in the order they entered the queue
    destroyed,      \* the destroy calls issued, in order, with their thread
    CONTEXT,        \* the OnceLock<Context>: <<>>, or <<the published Context>>
    newCalls,       \* the calls of Context::new begun
    source,         \* the ShaderSource being resolved
    resolved,       \* <<>> or <<r>>: the result of ShaderSource::to_string
    again,          \* <<>> or <<r>>: preprocess applied to the resolved text
    bpc,            \* where the shader build stands
    entry,          \* who called the build: Rust code or a C entry point
    builder,        \* the ShaderBuilder: vert, frag, prepend
    glsl,           \* naevc::gl_screen.glsl
    vertdata,       \* build's vertdata
    fragdata,       \* build's fragdata
    vertshader,     \* build's vertshader, 0 before it exists
    fragshader,     \* build's fragshader, 0 before it exists
    objects,        \* the shader and program objects of the driver, by name
    glCalls,        \* the driver calls made, in order
    warnings,       \* the warn! lines written
    buildRet,       \* what ShaderBuilder::build returned
    cRet,           \* what the C entry point returned
    dpc,            \* where draw_rect stands
    uniform,        \* the SolidUniform being drawn
    bound,          \* the program in use and the vertex array and uniform
                    \* buffer bound in the driver
    bufferSolid,    \* the bytes of the shared solid uniform buffer
    drawLog,        \* the driver calls of the latest draw_rect, in order
    drawn,          \* the bindings at each draw call of the latest draw_rect
    drawRet,        \* what the latest draw_rect returned
    attempts,       \* thread -> the create_context calls of its Context::new:
                    \* version asked for and result, in call order
    ret,            \* thread -> what its latest Context::new call returned
    built           \* the Contexts constructed, in order

guardVars == <<pc, on, panicking, guardLog, current, scState, mutexHolder,
               poisoned, aborted, last>>

queueVars == <<MESSAGE_QUEUE, queueLock, pending, pushed, destroyed>>

newVars == <<CONTEXT, newCalls, attempts, ret, built>>

\* The source being resolved and its results.
preVars == <<source, resolved, again>>

\* The shader build.
buildVars == <<bpc, entry, builder, glsl, vertdata, fragdata, vertshader,
               fragshader, objects, glCalls, warnings, buildRet, cRet>>

\* Drawing.
drawVars == <<dpc, uniform, bound, bufferSolid, drawLog, drawn, drawRet>>

\* The shader pipeline and drawing.
gpuVars == <<preVars, buildVars, drawVars>>

\* The guard protocol's variables that a shader build leaves alone.
buildRest == <<pc, on, panicking, guardLog, current, scState, mutexHolder,
               poisoned, last>>

vars == <<guardVars, queueVars, newVars, gpuVars>>

\* What the queue and Context::new leave alone of the guard protocol.
guardRest == <<on, panicking, guardLog, current, scState, mutexHolder,
               poisoned, aborted>>

None == "none"

\* The thread that ran Context::new: Context.main_thread.
Owner == "main"
Threads == {"main", "w1", "w2"}

\* The SafeContext values that may be built over the one Context.
SafeContexts == {"sc1", "sc2"}

\* How the work done under a guard leaves the guard's scope.
ExitPaths == {"normal", "early_return", "panic"}

------------------------------------------------------------------------------
(* The driver, as SDL exposes it.                                            *)

\* gl_make_current on thread t succeeded: the context is current to t. The
\* driver does not say what happens to another thread's binding (some drivers
\* refuse the call, macOS allows it): a success leaves every binding in place.
MadeCurrent(cur, t) == cur \cup {t}

\* gl_release_current_context on thread t succeeded: SDL_GL_MakeCurrent(NULL,
\* NULL) unbinds whatever is current to the calling thread, and only that.
ReleasedCurrent(cur, t) == cur \ {t}

\* Either driver call may fail; a failed call changes no binding.
DriverResults == {"ok", "err"}

\* The step just taken: the operation, its thread, the currency before it
\* and the SafeContext mutexes the thread held when it took it.
Step(op, t) ==
    [op |-> op, t |-> t, pre |-> current,
     held |-> {s \in SafeContexts : mutexHolder[s] = t}]

------------------------------------------------------------------------------
(* std::sync::Mutex                                                          *)

\* A lock that does not wait for the holder.
MutexFreeAlways(s) == TRUE

\* Mutex::lock returns once no thread holds the mutex.
MutexFree(s) == mutexHolder[s] = None

\* An unwinding that leaks the MutexGuard: the mutex stays held.
UnwoundMutexHeld(h) == h

\* A MutexGuard dropped while its thread unwinds releases and poisons.
UnwoundMutex(h) == None

\* A mutex that is never poisoned.
NeverPoisoned(p, unwinding) == p

\* The poison flag once a MutexGuard has been dropped: set when the thread
\* dropping it is unwinding, and never cleared.
Poisoned(p, unwinding) == p \/ unwinding

------------------------------------------------------------------------------
(* SafeContext::new                                                          *)

\* A constructor that forgets to release the context.
NewNotReleased(cur, t) == cur

\* The currency after new's gl_release_current_context().unwrap() succeeded.
NewReleased(cur, t) == ReleasedCurrent(cur, t)

\* SafeContext::new(ctx) called by thread t, building SafeContext s.
SafeContextNew(t, s) ==
    /\ ~aborted
    /\ pc[t] = "idle"
    /\ scState[s] = "unborn"
    /\ s = "sc2" => scState["sc1"] # "unborn"
    /\ \E res \in DriverResults :
        \/ /\ res = "ok"
           /\ current' = NewReleased(current, t)
           /\ scState' = [scState EXCEPT ![s] = "alive"]
           /\ last' = Step("new_ok", t)
           /\ UNCHANGED <<pc, panicking>>
        \/ /\ res = "err"
           /\ pc' = [pc EXCEPT ![t] = "panicked"]
           /\ panicking' = [panicking EXCEPT ![t] = TRUE]
           /\ last' = Step("new_err", t)
           /\ UNCHANGED <<current, scState>>
    /\ UNCHANGED <<on, guardLog, mutexHolder, poisoned, aborted>>
    /\ UNCHANGED <<queueVars, newVars, gpuVars>>

------------------------------------------------------------------------------
(* SafeContext::lock and ContextWrap                                         *)

\* A thread calls lock() on a live SafeContext and waits for its mutex.
LockStart(t, s) ==
    /\ ~aborted
    /\ pc[t] = "idle"
    /\ scState[s] = "alive"
    /\ pc' = [pc EXCEPT ![t] = "lock_wait"]
    /\ on' = [on EXCEPT ![t] = s]
    /\ last' = Step("lock_start", t)
    /\ UNCHANGED <<panicking, guardLog, current, scState, mutexHolder,
                   poisoned, aborted>>
    /\ UNCHANGED <<queueVars, newVars, gpuVars>>

\* self.ctx.lock().unwrap(): the mutex is taken; a poisoned mutex answers
\* Err(PoisonError), unwrap panics and the guard inside the error is dropped.
LockAcquire(t) ==
    /\ ~aborted
    /\ pc[t] = "lock_wait"
    /\ MutexFree(on[t])
    /\ IF poisoned[on[t]]
       THEN /\ pc' = [pc EXCEPT ![t] = "panicked"]
            /\ panicking' = [panicking EXCEPT ![t] = TRUE]
            /\ on' = [on EXCEPT ![t] = None]
            /\ last' = Step("lock_poisoned", t)
            /\ UNCHANGED mutexHolder
       ELSE /\ pc' = [pc EXCEPT ![t] = "lock_mk"]
            /\ mutexHolder' = [mutexHolder EXCEPT ![on[t]] = t]
            /\ last' = Step("lock_acquired", t)
            /\ UNCHANGED <<panicking, on>>
    /\ UNCHANGED <<guardLog, current, scState, poisoned, aborted>>
    /\ UNCHANGED <<queueVars, newVars, gpuVars>>

\* ContextWrap::new: gl_make_current(..).unwrap(), then the guard is built.
\* On failure the panic unwinds through the MutexGuard parameter.
ContextWrapNew(t) ==
    /\ ~aborted
    /\ pc[t] = "lock_mk"
    /\ \E res \in DriverResults :
        \/ /\ res = "ok"
           /\ current' = MadeCurrent(current, t)
           /\ pc' = [pc EXCEPT ![t] = "guard"]
           /\ guardLog' = [guardLog EXCEPT ![t] = <<>>]
           /\ last' = Step("lock_ok", t)
           /\ UNCHANGED <<on, panicking, mutexHolder, poisoned>>
        \/ /\ res = "err"
           /\ pc' = [pc EXCEPT ![t] = "panicked"]
           /\ panicking' = [panicking EXCEPT ![t] = TRUE]
           /\ mutexHolder' = [mutexHolder EXCEPT ![on[t]] = UnwoundMutex(@)]
           /\ poisoned' = [poisoned EXCEPT ![on[t]] = Poisoned(@, TRUE)]
           /\ on' = [on EXCEPT ![t] = None]
           /\ last' = Step("lock_err", t)
           /\ UNCHANGED <<current, guardLog>>
    /\ UNCHANGED <<scState, aborted>>
    /\ UNCHANGED <<queueVars, newVars, gpuVars>>

\* A guard whose drop does not release the context.
DropNotReleased(cur, t) == cur

\* The currency after the drop's gl_release_current_context() succeeded.
DropReleased(cur, t) == ReleasedCurrent(cur, t)

\* The guarded work ends by `path` and Drop for ContextWrap runs its body:
\* gl_release_current_context().unwrap(). A failure panics; a panic while the
\* thread already unwinds aborts the process.
ContextWrapDrop(t, path) ==
    /\ ~aborted
    /\ pc[t] = "guard"
    /\ \E res \in DriverResults :
        \/ /\ res = "ok"
           /\ current' = DropReleased(current, t)
           /\ guardLog' = [guardLog EXCEPT ![t] = Append(@, "release_ok")]
           /\ panicking' = [panicking EXCEPT ![t] = (path = "panic")]
           /\ pc' = [pc EXCEPT ![t] = "unlocking"]
           /\ last' = Step("guard_release_ok", t)
           /\ UNCHANGED aborted
        \/ /\ res = "err"
           /\ path # "panic"
           /\ guardLog' = [guardLog EXCEPT ![t] = Append(@, "release_err")]
           /\ panicking' = [panicking EXCEPT ![t] = TRUE]
           /\ pc' = [pc EXCEPT ![t] = "unlocking"]
           /\ last' = Step("guard_release_err", t)
           /\ UNCHANGED <<current, aborted>>
        \/ /\ res = "err"
           /\ path = "panic"
           /\ aborted' = TRUE
           /\ last' = Step("abort", t)
           /\ UNCHANGED <<current, guardLog, panicking, pc>>
    /\ UNCHANGED <<on, scState, mutexHolder, poisoned>>
    /\ UNCHANGED <<queueVars, newVars, gpuVars>>

\* A guard that leaks its MutexGuard: the mutex stays held.
GuardMutexLeaked(h) == h

\* What the mutex's holder becomes when the guard's MutexGuard is dropped.
GuardMutexDropped(h) == None

\* The guard's field, the MutexGuard, is dropped after the body of drop (also
\* when the body panicked): the mutex is released, poisoned if unwinding.
ContextWrapUnlock(t) ==
    /\ ~aborted
    /\ pc[t] = "unlocking"
    /\ mutexHolder' = [mutexHolder EXCEPT ![on[t]] = GuardMutexDropped(@)]
    /\ poisoned' = [poisoned EXCEPT ![on[t]] = Poisoned(@, panicking[t])]
    /\ guardLog' = [guardLog EXCEPT ![t] = Append(@, "unlock")]
    /\ pc' = [pc EXCEPT ![t] = IF panicking[t] THEN "panicked" ELSE "idle"]
    /\ on' = [on EXCEPT ![t] = None]
    /\ last' = Step("guard_unlock", t)
    /\ UNCHANGED <<panicking, current, scState, aborted>>
    /\ UNCHANGED <<queueVars, newVars, gpuVars>>

------------------------------------------------------------------------------
(* Drop for SafeContext                                                      *)

\* No thread is inside lock() or holds a guard of s: the borrow the guard
\* and the call keep on the SafeContext is what lets it be dropped.
Unborrowed(s) == \A u \in Threads : on[u] # s

\* drop begins: self.ctx.lock().unwrap(). A poisoned mutex panics the drop.
SafeContextDropLock(t, s) ==
    /\ ~aborted
    /\ pc[t] = "idle"
    /\ scState[s] = "alive"
    /\ Unborrowed(s)
    /\ MutexFree(s)
    /\ IF poisoned[s]
       THEN /\ pc' = [pc EXCEPT ![t] = "panicked"]
            /\ panicking' = [panicking EXCEPT ![t] = TRUE]
            /\ scState' = [scState EXCEPT ![s] = "dead"]
            /\ last' = Step("scdrop_poisoned", t)
            /\ UNCHANGED <<on, mutexHolder>>
       ELSE /\ pc' = [pc EXCEPT ![t] = "drop_mk"]
            /\ on' = [on EXCEPT ![t] = s]
            /\ mutexHolder' = [mutexHolder EXCEPT ![s] = t]
            /\ scState' = [scState EXCEPT ![s] = "dropping"]
            /\ last' = Step("scdrop_acquired", t)
            /\ UNCHANGED panicking
    /\ UNCHANGED <<guardLog, current, poisoned, aborted>>
    /\ UNCHANGED <<queueVars, newVars, gpuVars>>

\* The thread the context is current to once drop's gl_make_current
\* succeeded: the calling thread (main_thread is not consulted).
DropMadeCurrent(cur, t) == MadeCurrent(cur, t)

\* drop goes on: gl_make_current(..).unwrap(), then the MutexGuard is dropped
\* and the SafeContext is gone.
SafeContextDropMakeCurrent(t) ==
    /\ ~aborted
    /\ pc[t] = "drop_mk"
    /\ \E res \in DriverResults :
        \/ /\ res = "ok"
           /\ current' = DropMadeCurrent(current, t)
           /\ pc' = [pc EXCEPT ![t] = "idle"]
           /\ last' = Step("scdrop_ok", t)
           /\ UNCHANGED <<panicking, poisoned>>
        \/ /\ res = "err"
           /\ pc' = [pc EXCEPT ![t] = "panicked"]
           /\ panicking' = [panicking EXCEPT ![t] = TRUE]
           /\ poisoned' = [poisoned EXCEPT ![on[t]] = Poisoned(@, TRUE)]
           /\ last' = Step("scdrop_err", t)
           /\ UNCHANGED current
    /\ mutexHolder' = [mutexHolder EXCEPT ![on[t]] = None]
    /\ scState' = [scState EXCEPT ![on[t]] = "dead"]
    /\ on' = [on EXCEPT ![t] = None]
    /\ UNCHANGED <<guardLog, aborted>>
    /\ UNCHANGED <<queueVars, newVars, gpuVars>>

------------------------------------------------------------------------------
(* The deferred destruction queue                                            *)

\* The variants of enum Message.
MessageKinds == {"DeleteBuffer", "DeleteVertexArray", "DeleteProgram",
                 "DeleteTexture", "DeleteSampler", "DeleteFramebuffer"}

\* The most messages pushed in one run.
MaxPush == 2

\* Message::execute: the driver call each variant makes on its handle.
Execute(msg) ==
    CASE msg.kind = "DeleteBuffer" -> [call |-> "delete_buffer", handle |-> msg.handle]
      [] msg.kind = "DeleteVertexArray" -> [call |-> "delete_vertex_array", handle |-> msg.handle]
      [] msg.kind = "DeleteProgram" -> [call |-> "delete_program", handle |-> msg.handle]
      [] msg.kind = "DeleteTexture" -> [call |-> "delete_texture", handle |-> msg.handle]
      [] msg.kind = "DeleteSampler" -> [call |-> "delete_sampler", handle |-> msg.handle]
      [] msg.kind = "DeleteFramebuffer" -> [call |-> "delete_framebuffer", handle |-> msg.handle]

\* The messages created so far: each carries a handle of its own.
Created == Len(pushed) + Cardinality({t \in Threads : pending[t] # <<>>})

\* A thread is about to push a message: it calls MESSAGE_QUEUE.lock().
PushStart(t, kind) ==
    /\ pc[t] = "idle"
    /\ Created < MaxPush
    /\ pending' = [pending EXCEPT ![t] = <<[kind |-> kind, handle |-> Created + 1]>>]
    /\ pc' = [pc EXCEPT ![t] = "push_wait"]
    /\ last' = Step("push_start", t)
    /\ UNCHANGED <<MESSAGE_QUEUE, queueLock, pushed, destroyed>>
    /\ UNCHANGED <<guardRest, newVars, gpuVars>>

\* The lock is free: the message is pushed under it and the lock released.
PushLocked(t) ==
    /\ pc[t] = "push_wait"
    /\ queueLock = None
    /\ MESSAGE_QUEUE' = Append(MESSAGE_QUEUE, pending[t][1])
    /\ pushed' = Append(pushed, pending[t][1])
    /\ pending' = [pending EXCEPT ![t] = <<>>]
    /\ pc' = [pc EXCEPT ![t] = "idle"]
    /\ last' = Step("push", t)
    /\ UNCHANGED <<queueLock, destroyed>>
    /\ UNCHANGED <<guardRest, newVars, gpuVars>>

\* execute_messages begins: MESSAGE_QUEUE.lock().unwrap().
ExecuteMessagesLock(t) ==
    /\ pc[t] = "idle"
    /\ queueLock = None
    /\ queueLock' = t
    /\ pc' = [pc EXCEPT ![t] = "draining"]
    /\ last' = Step("drain_lock", t)
    /\ UNCHANGED <<MESSAGE_QUEUE, pending, pushed, destroyed>>
    /\ UNCHANGED <<guardRest, newVars, gpuVars>>

\* A drain that takes the newest message first.
DrainIndexLast(q) == Len(q)

\* queue.drain(..) yields the elements front to back.
DrainIndex(q) == 1

\* A drain that leaves the executed message in the queue.
KeptAt(q, i) == q

\* The queue without its i-th message: drain removes what it yields.
RemoveAt(q, i) == SubSeq(q, 1, i - 1) \o SubSeq(q, i + 1, Len(q))

\* One turn of the loop: the next drained message is executed, under the lock.
ExecuteMessagesStep(t) ==
    /\ pc[t] = "draining"
    /\ MESSAGE_QUEUE # <<>>
    /\ LET i == DrainIndex(MESSAGE_QUEUE)
           msg == MESSAGE_QUEUE[i]
       IN /\ destroyed' = Append(destroyed,
                 [call |-> Execute(msg), msg |-> msg, by |-> t,
                  current |-> t \in current])
          /\ MESSAGE_QUEUE' = RemoveAt(MESSAGE_QUEUE, i)
    /\ last' = Step("destroy", t)
    /\ UNCHANGED <<pc, queueLock, pending, pushed>>
    /\ UNCHANGED <<guardRest, newVars, gpuVars>>

\* The drain is exhausted: the queue guard is dropped and the call returns.
ExecuteMessagesReturn(t) ==
    /\ pc[t] = "draining"
    /\ MESSAGE_QUEUE = <<>>
    /\ queueLock' = None
    /\ pc' = [pc EXCEPT ![t] = "idle"]
    /\ last' = Step("drain_return", t)
    /\ UNCHANGED <<MESSAGE_QUEUE, pending, pushed, destroyed>>
    /\ UNCHANGED <<guardRest, newVars, gpuVars>>


------------------------------------------------------------------------------
(* Context::new and the CONTEXT slot                                         *)

\* The most calls of Context::new in one run.
MaxNewCalls == 3

\* The versions create_context is asked for, first and second.
FirstVersion == <<4, 6>>
SecondVersion == <<3, 3>>

NotReturned == [tag |-> "none", id |-> 0]
Failed == [tag |-> "err", id |-> 0]
Returned(ctx) == [tag |-> "ok", id |-> ctx.id]

\* Context::new is entered.
ContextNewStart(t) ==
    /\ pc[t] = "idle"
    /\ newCalls < MaxNewCalls
    /\ newCalls' = newCalls + 1
    /\ attempts' = [attempts EXCEPT ![t] = <<>>]
    /\ ret' = [ret EXCEPT ![t] = NotReturned]
    /\ pc' = [pc EXCEPT ![t] = "negotiate"]
    /\ last' = Step("ctx_new", t)
    /\ UNCHANGED <<CONTEXT, built>>
    /\ UNCHANGED <<guardRest, queueVars, gpuVars>>

\* A retry that asks for the first version again.
NextVersionSame(tried) == FirstVersion

\* The version the nested match asks for: 4.6, then 3.3 in the arm taken
\* when the 4.6 call did not return Ok.
NextVersion(tried) == IF tried = <<>> THEN FirstVersion ELSE SecondVersion

\* One create_context call of the nested match. Ok leaves the match with the
\* window and the context; the first failure falls into the inner match, the
\* second one bails out of Context::new.
ContextNewCreate(t) ==
    /\ pc[t] = "negotiate"
    /\ \E res \in DriverResults :
        /\ attempts' = [attempts EXCEPT
                            ![t] = Append(@, [version |-> NextVersion(@), res |-> res])]
        /\ \/ /\ res = "ok"
              /\ pc' = [pc EXCEPT ![t] = "setup"]
              /\ last' = Step("create_ok", t)
              /\ UNCHANGED ret
           \/ /\ res = "err"
              /\ attempts[t] = <<>>
              /\ last' = Step("create_err", t)
              /\ UNCHANGED <<pc, ret>>
           \/ /\ res = "err"
              /\ attempts[t] # <<>>
              /\ pc' = [pc EXCEPT ![t] = "idle"]
              /\ ret' = [ret EXCEPT ![t] = Failed]
              /\ last' = Step("ctx_new_err", t)
    /\ UNCHANGED <<CONTEXT, built, newCalls>>
    /\ UNCHANGED <<guardRest, queueVars, gpuVars>>

\* The vertex array, the shared shaders and the shared buffers are built;
\* each may fail and end the call with its error.
ContextNewSetup(t) ==
    /\ pc[t] = "setup"
    /\ \E res \in DriverResults :
        \/ /\ res = "ok"
           /\ pc' = [pc EXCEPT ![t] = "publish"]
           /\ last' = Step("setup_ok", t)
           /\ UNCHANGED ret
        \/ /\ res = "err"
           /\ pc' = [pc EXCEPT ![t] = "idle"]
           /\ ret' = [ret EXCEPT ![t] = Failed]
           /\ last' = Step("ctx_new_err", t)
    /\ UNCHANGED <<CONTEXT, attempts, built, newCalls>>
    /\ UNCHANGED <<guardRest, queueVars, gpuVars>>

\* A publish that overwrites the slot.
PublishedLatest(slot, ctx) == <<ctx>>

\* OnceLock::set: the value is stored only into an empty slot.
Published(slot, ctx) == IF slot = <<>> THEN <<ctx>> ELSE slot

\* The Context is constructed, `let _ = CONTEXT.set(ctx)` publishes it and
\* CONTEXT.get().unwrap() is returned.
ContextNewPublish(t) ==
    /\ pc[t] = "publish"
    /\ LET ctx == [id |-> Len(built) + 1, main_thread |-> t]
       IN /\ CONTEXT' = Published(CONTEXT, ctx)
          /\ built' = Append(built, ctx)
    /\ ret' = [ret EXCEPT ![t] = Returned(CONTEXT'[1])]
    /\ pc' = [pc EXCEPT ![t] = "idle"]
    /\ last' = Step("ctx_new_ok", t)
    /\ UNCHANGED <<attempts, newCalls>>
    /\ UNCHANGED <<guardRest, queueVars, gpuVars>>


------------------------------------------------------------------------------
(* Shader sources: text                                                      *)

\* Text is a sequence of atoms: single characters, and the words of the
\* shader language that the code looks for or writes as a whole.
Whitespace == {" ", "\t", "\r", "\n"}

\* The longest inline text resolved.
MaxLen == 4

\* The deepest nesting of load_file calls followed; a deeper nesting stands
\* for the recursion that never returns.
MaxDepth == 3

\* The atoms inline texts are made of.
Alphabet == {"#include", "\"", " ", "\n", "\r", "x", "b"}

\* No trim at all.
Untrimmed(s) == s

\* A trim that removes one whitespace atom from each end.
TrimOne(s) ==
    LET a == IF s # <<>> /\ Head(s) \in Whitespace THEN Tail(s) ELSE s
    IN IF a # <<>> /\ a[Len(a)] \in Whitespace THEN SubSeq(a, 1, Len(a) - 1) ELSE a

RECURSIVE TrimStart(_)
TrimStart(s) ==
    IF s # <<>> /\ Head(s) \in Whitespace THEN TrimStart(Tail(s)) ELSE s

RECURSIVE TrimEnd(_)
TrimEnd(s) ==
    IF s # <<>> /\ s[Len(s)] \in Whitespace
    THEN TrimEnd(SubSeq(s, 1, Len(s) - 1))
    ELSE s

\* str::trim: all leading and trailing whitespace removed.
Trim(s) == TrimEnd(TrimStart(s))

\* The position of the first c in s, 0 when there is none.
IndexOf(s, c) ==
    IF \E i \in 1..Len(s) : s[i] = c
    THEN CHOOSE i \in 1..Len(s) : s[i] = c /\ \A j \in 1..(i - 1) : s[j] # c
    ELSE 0

\* A line without the carriage return that preceded its line feed.
StripCR(l) ==
    IF l # <<>> /\ l[Len(l)] = "\r" THEN SubSeq(l, 1, Len(l) - 1) ELSE l

\* str::lines: the text is cut after every line feed; a line loses its line
\* feed and a carriage return just before it; text after the last line feed
\* is a line when it is not empty.
RECURSIVE Lines(_)
Lines(s) ==
    IF s = <<>> THEN <<>>
    ELSE LET i == IndexOf(s, "\n")
         IN IF i = 0 THEN <<s>>
            ELSE <<StripCR(SubSeq(s, 1, i - 1))>> \o Lines(SubSeq(s, i + 1, Len(s)))

\* str::starts_with.
StartsWith(s, prefix) ==
    Len(s) >= Len(prefix) /\ SubSeq(s, 1, Len(prefix)) = prefix

\* str::split: the segments of s between the occurrences of c.
RECURSIVE Split(_, _)
Split(s, c) ==
    LET i == IndexOf(s, c)
    IN IF i = 0 THEN <<s>>
       ELSE <<SubSeq(s, 1, i - 1)>> \o Split(SubSeq(s, i + 1, Len(s)), c)

\* Iterator::nth, counted from 0: <<>> for None, <<x>> for Some(x).
Nth(segments, n) == IF n + 1 <= Len(segments) THEN <<segments[n + 1]>> ELSE <<>>

------------------------------------------------------------------------------
(* Shader sources: ShaderSource                                              *)

INCLUDE_INSTRUCTION == <<"#include">>
GLSL_PATH == <<"glsl/">>

\* The data files: a includes b, c includes itself, u is not UTF-8, p and q
\* include each other, d includes the missing m and then itself.
Files ==
    (GLSL_PATH \o <<"a">>) :> <<"#include", " ", "\"", "b", "\"">>
    @@ (GLSL_PATH \o <<"b">>) :> <<"X">>
    @@ (GLSL_PATH \o <<"c">>) :> <<"x", "\n", "#include", "\"", "c", "\"">>
    @@ (GLSL_PATH \o <<"u">>) :> <<"<ff>">>
    @@ (GLSL_PATH \o <<"p">>) :> <<"#include", " ", "\"", "q", "\"", "\n">>
    @@ (GLSL_PATH \o <<"q">>) :> <<"y", "\n", "#include", " ", "\"", "p", "\"", "\n">>
    @@ (GLSL_PATH \o <<"d">>) :> <<"#include", "\"", "m", "\"", "\n",
                                   "#include", "\"", "d", "\"", "\n">>

\* ndata::read: <<>> when the file cannot be read, <<bytes>> otherwise.
Read(fullpath) == IF fullpath \in DOMAIN Files THEN <<Files[fullpath]>> ELSE <<>>

\* std::str::from_utf8 succeeds.
IsUtf8(rawdata) == \A i \in 1..Len(rawdata) : rawdata[i] # "<ff>"

\* Results: the text, or the error; loads are the files asked of ndata::read.
Ok(text, loads) == [ok |-> TRUE, out |-> text, err |-> "", loads |-> loads]
Err(e, loads) == [ok |-> FALSE, out |-> <<>>, err |-> e, loads |-> loads]

\* The path is everything after the directive word, quoted or not.
IncludePathRest(line) ==
    <<Trim(SubSeq(line, Len(INCLUDE_INSTRUCTION) + 1, Len(line)))>>

\* line.split("\"").nth(1): the text after the first quote, up to the next
\* quote or to the end of the line; None when the line has no quote.
IncludePath(line) == Nth(Split(line, "\""), 1)

RECURSIVE PreprocessLines(_, _, _, _)
RECURSIVE load_file(_, _)

\* The loop of preprocess over the lines left, module_string being the text
\* built so far.
PreprocessLines(lines, module_string, loads, fuel) ==
    IF lines = <<>> THEN Ok(module_string, loads)
    ELSE LET line == Trim(Head(lines))
         IN IF StartsWith(line, INCLUDE_INSTRUCTION)
            THEN LET include == IncludePath(line)
                 IN IF include = <<>>
                    THEN Err("#include syntax error", loads)
                    ELSE LET r == load_file(include[1], fuel)
                         IN IF r.ok
                            THEN PreprocessLines(Tail(lines),
                                                 module_string \o r.out \o <<"\n">>,
                                                 loads \o r.loads, fuel)
                            ELSE Err(r.err, loads \o r.loads)
            ELSE PreprocessLines(Tail(lines), module_string \o line \o <<"\n">>,
                                 loads, fuel)

\* ShaderSource::preprocess.
preprocess(data, fuel) == PreprocessLines(Lines(data), <<>>, <<>>, fuel)

\* The file's text is used as it was read.
LoadedRaw(data, fuel) == Ok(data, <<>>)

\* The last line of load_file: the file's text is preprocessed.
Loaded(data, fuel) == preprocess(data, fuel)

\* ShaderSource::load_file. A nesting deeper than MaxDepth is the recursion
\* that does not return: the call ends in a stack overflow.
load_file(path, fuel) ==
    LET fullpath == GLSL_PATH \o path
    IN IF fuel = 0 THEN Err("stack overflow", <<>>)
       ELSE LET rawdata == Read(fullpath)
            IN IF rawdata = <<>> THEN Err("read", <<fullpath>>)
               ELSE IF ~IsUtf8(rawdata[1]) THEN Err("utf8", <<fullpath>>)
               ELSE LET r == Loaded(rawdata[1], fuel - 1)
                    IN [r EXCEPT !.loads = <<fullpath>> \o @]

\* ShaderSource values.
Path(path) == [kind |-> "Path", text |-> path]
Data(data) == [kind |-> "Data", text |-> data]
NoSource == [kind |-> "None", text |-> <<>>]

\* An absent source resolves to the empty text.
to_string_or_empty(src) ==
    CASE src.kind = "Path" -> load_file(src.text, MaxDepth)
      [] src.kind = "Data" -> preprocess(src.text, MaxDepth)
      [] OTHER -> Ok(<<>>, <<>>)

\* ShaderSource::to_string.
to_string(src) ==
    CASE src.kind = "Path" -> load_file(src.text, MaxDepth)
      [] src.kind = "Data" -> preprocess(src.text, MaxDepth)
      [] OTHER -> Err("no shader source defined!", <<>>)

\* ShaderSource::name.
name(src) ==
    CASE src.kind = "Path" -> src.text
      [] src.kind = "Data" -> <<"DATA">>
      [] OTHER -> <<"NONE">>

\* The inline texts of at most MaxLen atoms.
Texts == UNION {[1..n -> Alphabet] : n \in 0..MaxLen}

\* The sources resolved: every inline text, the files and a missing file,
\* and the absent source.
Sources ==
    {Data(text) : text \in Texts}
    \cup {Path(<<f>>) : f \in {"a", "b", "c", "u", "m", "p", "q", "d"}}
    \cup {NoSource}

\* ShaderSource::to_string is called on the source.
Resolve ==
    /\ resolved = <<>>
    /\ resolved' = <<to_string(source)>>
    /\ UNCHANGED <<source, again>>
    /\ UNCHANGED <<guardVars, queueVars, newVars, buildVars, drawVars>>

\* The resolved text is preprocessed once more.
Reapply ==
    /\ resolved # <<>>
    /\ resolved[1].ok
    /\ again = <<>>
    /\ again' = <<preprocess(resolved[1].out, MaxDepth)>>
    /\ UNCHANGED <<source, resolved>>
    /\ UNCHANGED <<guardVars, queueVars, newVars, buildVars, drawVars>>


------------------------------------------------------------------------------
(* The shader build: ShaderBuilder::build, Shader::compile, Shader::link     *)

\* gl_screen.glsl as Context::new sets it from the version negotiated.
Glsl(version) ==
    LET major == version[1]
        minor == version[2]
    IN IF major * 100 + minor * 10 > 320 THEN 100 * major + 10 * minor ELSE 150

\* format!("{}", n) of a number that is not negative: its decimal digits.
RECURSIVE Decimal(_)
Decimal(n) ==
    LET digit == <<"0", "1", "2", "3", "4", "5", "6", "7", "8", "9">>[(n % 10) + 1]
    IN IF n < 10 THEN <<digit>> ELSE Decimal(n \div 10) \o <<digit>>

\* The generated prologue: the version line, an empty line and two macros.
Prologue(n) ==
    <<"#version ">> \o Decimal(n) \o <<"\n", "\n">>
    \o <<"#define GLSL_VERSION ">> \o Decimal(n) \o <<"\n">>
    \o <<"#define HAS_GL_ARB_shader_subroutine 1", "\n">>

\* The text is added at the end instead.
PushStr(str, idx, text) == str \o text

\* String::insert_str.
InsertStr(str, idx, text) ==
    SubSeq(str, 1, idx) \o text \o SubSeq(str, idx + 1, Len(str))

\* The final source of a stage: the caller's prepend text is inserted at
\* the front of the body when it is not empty, then the prologue is.
FinalSource(body, prepend, prologue) ==
    InsertStr(IF Len(prepend) > 0 THEN InsertStr(body, 0, prepend) ELSE body,
              0, prologue)

\* Results of ShaderBuilder::build.
NotBuilt == [tag |-> "none", err |-> <<>>, program |-> 0, vertname |-> <<>>, fragname |-> <<>>]
BuildErr(e) == [tag |-> "err", err |-> e, program |-> 0, vertname |-> <<>>, fragname |-> <<>>]
BuildOk(program) ==
    [tag |-> "ok", err |-> <<>>, program |-> program,
     vertname |-> name(builder.vert), fragname |-> name(builder.frag)]

\* What a C entry point hands to its caller.
NoReturn == [tag |-> "none", value |-> 0]
Abort == [tag |-> "abort", value |-> 0]

\* A failed build is turned into the handle 0.
UnwrappedOrZero(result) == [tag |-> "returned", value |-> result.program]

\* .unwrap().program.0.into() in an extern "C" function: the handle of the
\* program, or the panic that aborts the process.
Unwrapped(result) ==
    IF result.tag = "ok" THEN [tag |-> "returned", value |-> result.program]
    ELSE Abort

\* The compile status is not looked at.
CompiledAlways(status) == TRUE

\* Shader::compile goes on when get_shader_compile_status is true.
Compiled(status) == status

\* The stage objects are deleted when the link succeeded.
StagesDeletedIfLinked(status) == status

\* Shader::link deletes both stage objects before it looks at the link status.
StagesDeleted(status) == TRUE

\* One driver call.
Call(call, obj, arg) == [call |-> call, obj |-> obj, arg |-> arg]

\* The sources and prepend texts that Rust callers build with.
BuildSources == {Path(<<"a">>), Path(<<"m">>), Path(<<"u">>), Data(<<"x", "\n">>), NoSource}
Prepends == {<<>>, <<"#define P", "\n">>}

\* C strings and byte buffers handed to the C entry points; <<>> is the
\* null pointer, <<s>> a pointer to s.
CStrings == {<<"a">>, <<"m">>, <<"<ff>">>}
CPrepends == {<<>>} \cup {<<text>> : text \in Prepends \cup {<<"<ff>">>}}
CBuffers == {<<"x", "\n">>, <<"#include", "b">>, <<"<ff>">>}

\* A Rust caller builds a ShaderBuilder and calls build.
BuildCall(vert, frag, prepend) ==
    /\ bpc = "idle"
    /\ entry' = "build"
    /\ builder' = [vert |-> vert, frag |-> frag, prepend |-> prepend]
    /\ bpc' = "resolve_vert"
    /\ UNCHANGED <<glsl, vertdata, fragdata, vertshader, fragshader, objects,
                   glCalls, warnings, buildRet, cRet, aborted>>
    /\ UNCHANGED <<buildRest, queueVars, newVars, preVars, drawVars>>

\* gl_program_backend up to its call of build: the context is taken from
\* CONTEXT and the C strings are read as UTF-8, each with unwrap.
GlProgramBackend(cvert, cfrag, cprepend) ==
    /\ bpc = "idle"
    /\ entry' = "gl_program_backend"
    /\ IF /\ CONTEXT # <<>>
          /\ IsUtf8(cvert)
          /\ IsUtf8(cfrag)
          /\ cprepend # <<>> => IsUtf8(cprepend[1])
       THEN /\ builder' = [vert |-> Path(cvert), frag |-> Path(cfrag),
                           prepend |-> IF cprepend = <<>> THEN <<>> ELSE cprepend[1]]
            /\ bpc' = "resolve_vert"
            /\ UNCHANGED <<cRet, aborted>>
       ELSE /\ cRet' = Abort
            /\ aborted' = TRUE
            /\ bpc' = "done"
            /\ UNCHANGED builder
    /\ UNCHANGED <<glsl, vertdata, fragdata, vertshader, fragshader, objects,
                   glCalls, warnings, buildRet>>
    /\ UNCHANGED <<buildRest, queueVars, newVars, preVars, drawVars>>

\* gl_program_vert_frag_string up to its call of build.
GlProgramVertFragString(cvert, cfrag) ==
    /\ bpc = "idle"
    /\ entry' = "gl_program_vert_frag_string"
    /\ IF CONTEXT # <<>> /\ IsUtf8(cvert) /\ IsUtf8(cfrag)
       THEN /\ builder' = [vert |-> Data(cvert), frag |-> Data(cfrag), prepend |-> <<>>]
            /\ bpc' = "resolve_vert"
            /\ UNCHANGED <<cRet, aborted>>
       ELSE /\ cRet' = Abort
            /\ aborted' = TRUE
            /\ bpc' = "done"
            /\ UNCHANGED builder
    /\ UNCHANGED <<glsl, vertdata, fragdata, vertshader, fragshader, objects,
                   glCalls, warnings, buildRet>>
    /\ UNCHANGED <<buildRest, queueVars, newVars, preVars, drawVars>>

\* build returns result: a Rust caller has it, a C entry point unwraps it.
BuildReturns(result) ==
    /\ buildRet' = result
    /\ bpc' = "done"
    /\ cRet' = IF entry = "build" THEN cRet ELSE Unwrapped(result)
    /\ aborted' = (aborted \/ (entry # "build" /\ Unwrapped(result).tag = "abort"))

\* The build goes on to its next step.
BuildGoes(next) ==
    /\ bpc' = next
    /\ UNCHANGED <<buildRet, cRet, aborted>>

\* let mut vertdata = ShaderSource::to_string(&self.vert)?
BuildResolveVert ==
    /\ bpc = "resolve_vert"
    /\ LET r == to_string(builder.vert)
       IN IF r.ok
          THEN vertdata' = r.out /\ BuildGoes("resolve_frag")
          ELSE UNCHANGED vertdata /\ BuildReturns(BuildErr(<<r.err>>))
    /\ UNCHANGED <<entry, builder, glsl, fragdata, vertshader, fragshader,
                   objects, glCalls, warnings>>
    /\ UNCHANGED <<buildRest, queueVars, newVars, preVars, drawVars>>

\* let mut fragdata = ShaderSource::to_string(&self.frag)?
BuildResolveFrag ==
    /\ bpc = "resolve_frag"
    /\ LET r == to_string(builder.frag)
       IN IF r.ok
          THEN fragdata' = r.out /\ BuildGoes("compose")
          ELSE UNCHANGED fragdata /\ BuildReturns(BuildErr(<<r.err>>))
    /\ UNCHANGED <<entry, builder, glsl, vertdata, vertshader, fragshader,
                   objects, glCalls, warnings>>
    /\ UNCHANGED <<buildRest, queueVars, newVars, preVars, drawVars>>

\* The prologue is generated and both texts get the caller's prepend text
\* and the prologue in front.
BuildCompose ==
    /\ bpc = "compose"
    /\ vertdata' = FinalSource(vertdata, builder.prepend, Prologue(glsl))
    /\ fragdata' = FinalSource(fragdata, builder.prepend, Prologue(glsl))
    /\ BuildGoes("compile_vert")
    /\ UNCHANGED <<entry, builder, glsl, vertshader, fragshader, objects,
                   glCalls, warnings>>
    /\ UNCHANGED <<buildRest, queueVars, newVars, preVars, drawVars>>

\* Shader::compile of one stage: the object is created, given the source
\* and compiled; a false compile status is warned about, with the name of
\* the source, and ends the build with the compile error.
Compile(stage, src, data, next) ==
    \E created \in DriverResults, status \in BOOLEAN :
        LET shader == Len(objects) + 1
        IN IF created = "err"
           THEN /\ glCalls' = Append(glCalls, Call("create_shader", 0, 0))
                /\ BuildReturns(BuildErr(<<"create_shader failed">>))
                /\ UNCHANGED <<objects, warnings, vertshader, fragshader>>
           ELSE /\ objects' = Append(objects, [kind |-> stage, live |-> TRUE,
                                               source |-> data, status |-> status])
                /\ glCalls' = glCalls \o <<Call("create_shader", shader, 0),
                                           Call("shader_source", shader, 0),
                                           Call("compile_shader", shader, 0),
                                           Call("get_shader_compile_status", shader, 0)>>
                /\ IF Compiled(status)
                   THEN /\ vertshader' = IF stage = "Vertex" THEN shader ELSE vertshader
                        /\ fragshader' = IF stage = "Fragment" THEN shader ELSE fragshader
                        /\ BuildGoes(next)
                        /\ UNCHANGED warnings
                   ELSE /\ warnings' = Append(warnings, [what |-> "compile",
                                                         name |-> name(src)])
                        /\ BuildReturns(BuildErr(<<"failed to compile shader program">>))
                        /\ UNCHANGED <<vertshader, fragshader>>

\* let vertshader = Shader::compile(ctx, ShaderType::Vertex, ..)?
BuildCompileVert ==
    /\ bpc = "compile_vert"
    /\ Compile("Vertex", builder.vert, vertdata, "compile_frag")
    /\ UNCHANGED <<entry, builder, glsl, vertdata, fragdata>>
    /\ UNCHANGED <<buildRest, queueVars, newVars, preVars, drawVars>>

\* let fragshader = Shader::compile(ctx, ShaderType::Fragment, ..)?
BuildCompileFrag ==
    /\ bpc = "compile_frag"
    /\ Compile("Fragment", builder.frag, fragdata, "link")
    /\ UNCHANGED <<entry, builder, glsl, vertdata, fragdata>>
    /\ UNCHANGED <<buildRest, queueVars, newVars, preVars, drawVars>>

\* Shader::link and the end of build: the program is created, the stages are
\* attached, the program is linked, both stages are deleted and the link
\* status decides between the program and the link error.
BuildLink ==
    /\ bpc = "link"
    /\ \E created \in DriverResults, status \in BOOLEAN :
        LET program == Len(objects) + 1
            deleted == IF StagesDeleted(status) THEN {vertshader, fragshader} ELSE {}
        IN IF created = "err"
           THEN /\ glCalls' = Append(glCalls, Call("create_program", 0, 0))
                /\ BuildReturns(BuildErr(<<"create_program failed">>))
                /\ UNCHANGED <<objects, warnings>>
           ELSE /\ objects' =
                      [i \in 1..program |->
                          IF i = program
                          THEN [kind |-> "Program", live |-> TRUE,
                                source |-> <<>>, status |-> status]
                          ELSE [objects[i] EXCEPT !.live = @ /\ i \notin deleted]]
                /\ glCalls' = glCalls
                      \o <<Call("create_program", program, 0),
                           Call("attach_shader", program, vertshader),
                           Call("attach_shader", program, fragshader),
                           Call("link_program", program, 0)>>
                      \o (IF StagesDeleted(status)
                          THEN <<Call("delete_shader", vertshader, 0),
                                 Call("delete_shader", fragshader, 0)>>
                          ELSE <<>>)
                      \o <<Call("get_program_link_status", program, 0)>>
                /\ IF status
                   THEN /\ BuildReturns(BuildOk(program))
                        /\ UNCHANGED warnings
                   ELSE /\ warnings' = Append(warnings, [what |-> "link", name |-> <<>>])
                        /\ BuildReturns(BuildErr(<<"failed to link shader program">>))
    /\ UNCHANGED <<entry, builder, glsl, vertdata, fragdata, vertshader, fragshader>>
    /\ UNCHANGED <<buildRest, queueVars, newVars, preVars, drawVars>>


------------------------------------------------------------------------------
(* Drawing: Context::draw_rect, Context::draw_rect_ex                        *)

\* The product of two 3x3 matrices, each a sequence of three rows.
MatMul(a, b) ==
    [i \in 1..3 |-> [j \in 1..3 |-> a[i][1] * b[1][j] + a[i][2] * b[2][j]
                                      + a[i][3] * b[3][j]]]

\* The projection of a view two units wide and two units high.
Projection == <<<<1, 0, -1>>, <<0, 1, -1>>, <<0, 0, 1>>>>

\* The uniform draw_rect makes of its arguments.
SolidUniform(x, y, w, h, colour) ==
    [transform |-> MatMul(Projection, <<<<w, 0, x>>, <<0, h, y>>, <<0, 0, 1>>>>),
     colour |-> colour]

\* SolidUniform::buffer: the uniform laid out for the driver, the matrix
\* column after column, then the colour.
UniformBuffer(u) ==
    <<u.transform[1][1], u.transform[2][1], u.transform[3][1],
      u.transform[1][2], u.transform[2][2], u.transform[3][2],
      u.transform[1][3], u.transform[2][3], u.transform[3][3]>> \o u.colour

\* The rectangles and colours drawn.
Rects == {<<0, 0, 10, 10>>, <<1, 2, 3, 4>>, <<0, 0, 1, 1>>}
Colours == {<<1, 1, 1, 1>>, <<1, 0, 0, 1>>}

\* The centred square is bound instead.
BoundCentre(b) == [b EXCEPT !.vao = "vao_center"]

\* self.vao_square.bind(self).
BoundSquare(b) == [b EXCEPT !.vao = "vao_square"]

\* draw_rect makes the uniform and enters draw_rect_ex.
DrawRect(rect, colour) ==
    /\ dpc = "idle"
    /\ uniform' = SolidUniform(rect[1], rect[2], rect[3], rect[4], colour)
    /\ drawLog' = <<>>
    /\ drawn' = <<>>
    /\ drawRet' = "none"
    /\ dpc' = "bind"
    /\ UNCHANGED <<bound, bufferSolid>>
    /\ UNCHANGED <<guardVars, queueVars, newVars, preVars, buildVars>>

\* The solid program is put in use and the square vertex array is bound.
DrawBind ==
    /\ dpc = "bind"
    /\ bound' = BoundSquare([bound EXCEPT !.program = "program_solid"])
    /\ drawLog' = drawLog \o <<"use_program", "bind_vertex_array">>
    /\ dpc' = "write"
    /\ UNCHANGED <<uniform, bufferSolid, drawn, drawRet>>
    /\ UNCHANGED <<guardVars, queueVars, newVars, preVars, buildVars>>

\* self.buffer_solid.write(self, &uniform.buffer()?)?: the uniform is laid
\* out and written to the shared buffer; either step may fail, and the
\* failure is returned at once.
DrawWrite ==
    /\ dpc = "write"
    /\ \E encoded \in DriverResults, written \in DriverResults :
        IF encoded = "ok" /\ written = "ok"
        THEN /\ bufferSolid' = UniformBuffer(uniform)
             /\ drawLog' = Append(drawLog, "buffer_write")
             /\ dpc' = "draw"
             /\ UNCHANGED drawRet
        ELSE /\ drawLog' = IF encoded = "ok" THEN Append(drawLog, "buffer_write")
                           ELSE drawLog
             /\ drawRet' = "err"
             /\ dpc' = "idle"
             /\ UNCHANGED bufferSolid
    /\ UNCHANGED <<uniform, bound, drawn>>
    /\ UNCHANGED <<guardVars, queueVars, newVars, preVars, buildVars>>

\* The shared buffer is bound to binding point 0 and the four vertices of
\* the triangle strip are drawn.
DrawArrays ==
    /\ dpc = "draw"
    /\ bound' = [bound EXCEPT !.ubo = "buffer_solid"]
    /\ drawn' = Append(drawn, bound')
    /\ drawLog' = drawLog \o <<"bind_buffer_base", "draw_arrays">>
    /\ dpc' = "unbind"
    /\ UNCHANGED <<uniform, bufferSolid, drawRet>>
    /\ UNCHANGED <<guardVars, queueVars, newVars, preVars, buildVars>>

\* The vertex array and the buffer are unbound and Ok is returned.
DrawUnbind ==
    /\ dpc = "unbind"
    /\ bound' = [bound EXCEPT !.vao = "none", !.ubo = "none"]
    /\ drawLog' = drawLog \o <<"unbind_vertex_array", "unbind_buffer">>
    /\ drawRet' = "ok"
    /\ dpc' = "idle"
    /\ UNCHANGED <<uniform, bufferSolid, drawn>>
    /\ UNCHANGED <<guardVars, queueVars, newVars, preVars, buildVars>>


------------------------------------------------------------------------------
(* Initial states and specifications                                         *)

\* Context::new has run on Owner: the context is current to it.
InitGuard ==
    /\ pc = [t \in Threads |-> "idle"]
    /\ on = [t \in Threads |-> None]
    /\ panicking = [t \in Threads |-> FALSE]
    /\ guardLog = [t \in Threads |-> <<>>]
    /\ current = {Owner}
    /\ scState = [s \in SafeContexts |-> "unborn"]
    /\ mutexHolder = [s \in SafeContexts |-> None]
    /\ poisoned = [s \in SafeContexts |-> FALSE]
    /\ aborted = FALSE
    /\ last = [op |-> "init", t |-> None, pre |-> {}, held |-> {}]

\* Nothing is queued.
InitQueue ==
    /\ MESSAGE_QUEUE = <<>>
    /\ queueLock = None
    /\ pending = [t \in Threads |-> <<>>]
    /\ pushed = <<>>
    /\ destroyed = <<>>

\* Owner's Context::new got its context at the first version and published it.
InitPublished ==
    /\ CONTEXT = <<[id |-> 1, main_thread |-> Owner]>>
    /\ newCalls = 1
    /\ attempts = [t \in Threads |->
                    IF t = Owner THEN <<[version |-> FirstVersion, res |-> "ok"]>>
                    ELSE <<>>]
    /\ ret = [t \in Threads |-> IF t = Owner THEN Returned(CONTEXT[1]) ELSE NotReturned]
    /\ built = CONTEXT

\* No Context has been built: the slot is empty.
InitUnpublished ==
    /\ CONTEXT = <<>>
    /\ newCalls = 0
    /\ attempts = [t \in Threads |-> <<>>]
    /\ ret = [t \in Threads |-> NotReturned]
    /\ built = <<>>

\* No source is being resolved.
InitSource ==
    /\ source = NoSource
    /\ resolved = <<>>
    /\ again = <<>>

\* No shader is being built and the driver has no shader objects.
InitBuild ==
    /\ bpc = "idle"
    /\ entry = "build"
    /\ builder = [vert |-> NoSource, frag |-> NoSource, prepend |-> <<>>]
    /\ vertdata = <<>>
    /\ fragdata = <<>>
    /\ vertshader = 0
    /\ fragshader = 0
    /\ objects = <<>>
    /\ glCalls = <<>>
    /\ warnings = <<>>
    /\ buildRet = NotBuilt
    /\ cRet = NoReturn

\* Nothing has been drawn: Context::new left the core vertex array bound,
\* no program in use and the default uniform in the solid buffer.
InitDraw ==
    /\ dpc = "idle"
    /\ uniform = SolidUniform(0, 0, 1, 1, <<1, 1, 1, 1>>)
    /\ bound = [program |-> "none", vao |-> "vao_core", ubo |-> "none"]
    /\ bufferSolid = <<>>
    /\ drawLog = <<>>
    /\ drawn = <<>>
    /\ drawRet = "none"

\* The shader pipeline at rest, the shading-language version being that of
\* the first version negotiated.
InitGpu ==
    /\ InitSource
    /\ InitBuild
    /\ InitDraw
    /\ glsl = Glsl(FirstVersion)

Init == InitGuard /\ InitQueue /\ InitPublished /\ InitGpu

\* SafeContext values built by the threads of Builders, out of SCs.
GuardNext(Builders, SCs) ==
    \/ \E t \in Builders, s \in SCs : SafeContextNew(t, s)
    \/ \E t \in Threads, s \in SCs : LockStart(t, s)
    \/ \E t \in Threads : LockAcquire(t)
    \/ \E t \in Threads : ContextWrapNew(t)
    \/ \E t \in Threads, path \in ExitPaths : ContextWrapDrop(t, path)
    \/ \E t \in Threads : ContextWrapUnlock(t)
    \/ \E t \in Threads, s \in SCs : SafeContextDropLock(t, s)
    \/ \E t \in Threads : SafeContextDropMakeCurrent(t)

\* SafeContext values used freely: any thread builds, locks and drops them.
Next == GuardNext(Threads, SafeContexts)

Spec == Init /\ [][Next]_vars

\* The lifecycle of the access guards: the owner, holding the context
\* current, builds the one SafeContext; any thread locks it and drops it.
NextLifecycle == GuardNext({Owner}, {"sc1"})

SpecLifecycle == Init /\ [][NextLifecycle]_vars

\* Fair scheduling of the lifecycle: a thread that can go on inside lock(),
\* inside a drop or at the end of its guarded work does go on, and a thread
\* waiting for the mutex gets it if the mutex is free again and again.
FairLifecycle ==
    \A t \in Threads :
        /\ SF_vars(LockAcquire(t))
        /\ WF_vars(ContextWrapNew(t))
        /\ WF_vars(\E path \in ExitPaths : ContextWrapDrop(t, path))
        /\ WF_vars(ContextWrapUnlock(t))
        /\ WF_vars(SafeContextDropMakeCurrent(t))

SpecFair == Init /\ [][NextLifecycle]_vars /\ FairLifecycle

\* Threads push messages and call execute_messages.
QueueNext ==
    \/ \E t \in Threads, kind \in MessageKinds : PushStart(t, kind)
    \/ \E t \in Threads : PushLocked(t)
    \/ \E t \in Threads : ExecuteMessagesLock(t)
    \/ \E t \in Threads : ExecuteMessagesStep(t)
    \/ \E t \in Threads : ExecuteMessagesReturn(t)

SpecQueue == Init /\ [][QueueNext]_vars

\* Threads call Context::new.
NewNext ==
    \/ \E t \in Threads : ContextNewStart(t)
    \/ \E t \in Threads : ContextNewCreate(t)
    \/ \E t \in Threads : ContextNewSetup(t)
    \/ \E t \in Threads : ContextNewPublish(t)

InitNew == InitGuard /\ InitQueue /\ InitUnpublished /\ InitGpu

SpecNew == InitNew /\ [][NewNext]_vars

\* A source is resolved, and its text preprocessed again.
PreNext ==
    \/ Resolve
    \/ Reapply

InitPre ==
    /\ InitGuard /\ InitQueue /\ InitPublished
    /\ source \in Sources
    /\ resolved = <<>>
    /\ again = <<>>
    /\ InitBuild
    /\ InitDraw
    /\ glsl = Glsl(FirstVersion)

SpecPre == InitPre /\ [][PreNext]_vars

\* One shader program is built, by Rust code or through a C entry point.
BuildNext ==
    \/ \E vert \in BuildSources, frag \in BuildSources, prepend \in Prepends :
          BuildCall(vert, frag, prepend)
    \/ \E cvert \in CStrings, cfrag \in CStrings, cprepend \in CPrepends :
          GlProgramBackend(cvert, cfrag, cprepend)
    \/ \E cvert \in CBuffers, cfrag \in CBuffers : GlProgramVertFragString(cvert, cfrag)
    \/ BuildResolveVert
    \/ BuildResolveFrag
    \/ BuildCompose
    \/ BuildCompileVert
    \/ BuildCompileFrag
    \/ BuildLink

\* The context was negotiated at either version, and is published or, for
\* builds made while Context::new runs, not yet.
InitBuilding ==
    /\ InitGuard /\ InitQueue
    /\ InitPublished \/ InitUnpublished
    /\ InitSource
    /\ InitBuild
    /\ InitDraw
    /\ glsl \in {Glsl(FirstVersion), Glsl(SecondVersion)}

SpecBuild == InitBuilding /\ [][BuildNext]_vars

\* Rectangles are drawn, one call after the other.
DrawNext ==
    \/ \E rect \in Rects, colour \in Colours : DrawRect(rect, colour)
    \/ DrawBind
    \/ DrawWrite
    \/ DrawArrays
    \/ DrawUnbind

SpecDraw == Init /\ [][DrawNext]_vars

------------------------------------------------------------------------------
(* The guard protocol: properties                                            *)

\* The threads holding a live ContextWrap of SafeContext s: from the guard's
\* construction to the end of its drop.
GuardHolders(s) == {t \in Threads : on[t] = s /\ pc[t] \in {"guard", "unlocking"}}

\* C2: for each SafeContext, at most one ContextWrap guard obtained from it
\* is live in any reachable state, however many threads call lock() on it.
C2_AtMostOneGuard == \A s \in SafeContexts : Cardinality(GuardHolders(s)) <= 1

\* A thread holds a guard of a SafeContext while another waits in lock() on it.
C2_Witness ==
    \E s \in SafeContexts : \E t, u \in Threads :
        /\ t # u
        /\ on[t] = s /\ pc[t] = "guard"
        /\ on[u] = s /\ pc[u] = "lock_wait"

\* C3: over the lifecycle owner-current, SafeContext::new, lock()/guard drops
\* by any threads, SafeContext drop, the context is current to at most one
\* thread in every reachable state.
C3_AtMostOneCurrent == Cardinality(current) <= 1

\* A visiting thread has the context current under its guard while another
\* thread waits in lock().
C3_Witness ==
    /\ pc["w1"] = "guard"
    /\ current = {"w1"}
    /\ pc["w2"] = "lock_wait"

\* C4 as claimed: after SafeContext::new returns no thread has the context
\* current, whichever thread called it.
C4_NewLeavesUncurrent == last.op = "new_ok" => current = {}

\* C4 as amended: SafeContext::new releases the calling thread's currency
\* only. After it returns the caller does not have the context current, and
\* no thread has it current exactly when no other thread had it before the call.
C4_NewReleasesCaller ==
    last.op = "new_ok" =>
        /\ last.t \notin current
        /\ (current = {}) <=> (last.pre \subseteq {last.t})

\* The owner, holding the context current, has built a SafeContext: Uncurrent.
C4_Witness ==
    /\ last.op = "new_ok"
    /\ last.t = Owner
    /\ last.pre = {Owner}
    /\ current = {}

\* C5: after a SafeContext is dropped the context is current to the thread
\* recorded as main_thread, whichever thread performed the drop.
C5_DropRestoresOwner == last.op = "scdrop_ok" => current = {Owner}

\* C8: a make-current that fails inside lock() returns no guard to the
\* caller, changes no thread's currency (Uncurrent stays Uncurrent) and
\* leaves no mutex held by the failing thread.
C8_FailedLockLeavesNothing ==
    last.op = "lock_err" =>
        /\ pc[last.t] = "panicked"
        /\ \A s \in SafeContexts : last.t \notin GuardHolders(s)
        /\ current = last.pre
        /\ \A s \in SafeContexts : mutexHolder[s] # last.t

\* lock() has just failed at make-current with the context Uncurrent.
C8_Witness ==
    /\ last.op = "lock_err"
    /\ last.pre = {}
    /\ current = {}
    /\ \E s \in SafeContexts : poisoned[s] /\ mutexHolder[s] = None

\* The guard of the thread that took the last step has gone out of scope.
ScopeEnded == last.op = "guard_unlock"

\* C9 as claimed: when a guard's scope has ended, by any exit path, its drop
\* has released the context once and the mutex once, the context is not
\* current to the visiting thread and the thread holds no mutex.
C9_ScopeEndReleasesAll ==
    ScopeEnded =>
        /\ guardLog[last.t] = <<"release_ok", "unlock">>
        /\ last.t \notin current
        /\ \A s \in SafeContexts : mutexHolder[s] # last.t

\* C9 as amended: when a guard's scope has ended, by any exit path, its drop
\* has called release-current exactly once and released the mutex exactly
\* once after it; the thread holds no mutex, and the context is not current
\* to it whenever that release-current call succeeded.
C9_ScopeEndReleasesOnce ==
    ScopeEnded =>
        /\ guardLog[last.t] \in {<<"release_ok", "unlock">>, <<"release_err", "unlock">>}
        /\ \A s \in SafeContexts : mutexHolder[s] # last.t
        /\ guardLog[last.t][1] = "release_ok" => last.t \notin current

\* A guard has been dropped by a panic unwinding through the guarded work.
C9_Witness ==
    /\ ScopeEnded
    /\ pc[last.t] = "panicked"
    /\ guardLog[last.t] = <<"release_ok", "unlock">>
    /\ last.t \notin current

------------------------------------------------------------------------------
(* The destruction queue: properties                                         *)

\* The messages whose destroy call has been issued, in the order of the calls.
DestroyedMessages == [i \in DOMAIN destroyed |-> destroyed[i].msg]

\* C1: the destroy calls are issued in exactly the order the messages entered
\* the queue, each the call of its message's kind, and when execute_messages
\* returns the queue is empty and every message pushed has been executed.
C1_FifoDrain ==
    /\ Len(destroyed) <= Len(pushed)
    /\ \A i \in DOMAIN destroyed :
        /\ destroyed[i].msg = pushed[i]
        /\ destroyed[i].call = Execute(pushed[i])
    /\ last.op = "drain_return" =>
        /\ MESSAGE_QUEUE = <<>>
        /\ DestroyedMessages = pushed

\* Two threads pushed, the message created second entering first, and one
\* thread's execute_messages has returned after executing both.
C1_Witness ==
    /\ last.op = "drain_return"
    /\ Len(destroyed) = 2
    /\ pushed[1].handle = 2
    /\ destroyed[1].by = destroyed[2].by

\* C6: every destroy call of a queued message is issued by a thread to which
\* the context is current at that moment; an execute_messages call by a
\* thread that does not hold the context current issues none.
C6_DestroyOnlyWhenCurrent == \A i \in DOMAIN destroyed : destroyed[i].current

\* C7: a thread pushing onto the queue never waits while another thread's
\* execute_messages is executing destroy calls: the lock it needs is not held
\* by a drain that has messages left to execute.
C7_PushNeverWaitsForDrain ==
    \A p, d \in Threads :
        (pc[p] = "push_wait" /\ pc[d] = "draining" /\ MESSAGE_QUEUE # <<>>)
            => queueLock # d

------------------------------------------------------------------------------
(* The CONTEXT slot: properties                                              *)

\* C10: the CONTEXT slot is empty until the first Context::new succeeds and
\* holds the first Context constructed ever after; a later Context::new
\* leaves it unchanged, and every call that succeeds returns that first one.
C10_WriteOnce ==
    /\ built = <<>> => CONTEXT = <<>>
    /\ built # <<>> => CONTEXT = <<built[1]>>
    /\ \A t \in Threads : ret[t].tag = "ok" => ret[t].id = built[1].id

\* A second Context has just been constructed by another thread, whose call
\* returned the first.
C10_Witness ==
    /\ last.op = "ctx_new_ok"
    /\ Len(built) = 2
    /\ built[2].main_thread = last.t
    /\ built[1].main_thread # last.t
    /\ ret[last.t] = Returned(built[1])
    /\ CONTEXT = <<built[1]>>

------------------------------------------------------------------------------
(* Version negotiation: properties                                           *)

\* C11: Context::new asks for version 4.6 first; it asks a second time, for
\* 3.3, exactly when the 4.6 call failed; when the 3.3 call fails too the
\* construction fails with an error; there is never a third call, and no 3.3
\* call after a 4.6 call that succeeded.
C11_Negotiation ==
    \A t \in Threads :
        LET a == attempts[t]
        IN /\ Len(a) <= 2
           /\ Len(a) >= 1 => a[1].version = FirstVersion
           /\ Len(a) = 2 => a[2].version = SecondVersion /\ a[1].res = "err"
           /\ (Len(a) = 1 /\ a[1].res = "err") => pc[t] = "negotiate"
           /\ (Len(a) = 2 /\ a[2].res = "err") => ret[t] = Failed /\ pc[t] = "idle"
           /\ pc[t] \in {"setup", "publish"} => a[Len(a)].res = "ok"
           /\ ret[t].tag = "ok" => a[Len(a)].res = "ok"

\* Both calls have failed and Context::new has just returned its error.
C11_Witness ==
    /\ last.op = "ctx_new_err"
    /\ attempts[last.t] = <<[version |-> FirstVersion, res |-> "err"],
                            [version |-> SecondVersion, res |-> "err"]>>
    /\ ret[last.t] = Failed

------------------------------------------------------------------------------
(* Shader sources: properties                                                *)

\* The lines of text that preprocess takes for include directives.
IncludeLines(text) ==
    {i \in 1..Len(Lines(text)) : StartsWith(Trim(Lines(text)[i]), INCLUDE_INSTRUCTION)}

\* The first include directive line of text, trimmed.
FirstInclude(text) ==
    Trim(Lines(text)[CHOOSE i \in IncludeLines(text) :
                         \A j \in IncludeLines(text) : i <= j])

\* The number of double quotes in line.
Quotes(line) == Cardinality({i \in 1..Len(line) : line[i] = "\""})

\* C12: for an inline text without an include directive line, preprocessing
\* the preprocessed text gives the preprocessed text again.
C12_Idempotent ==
    (source.kind = "Data" /\ IncludeLines(source.text) = {} /\ again # <<>>)
        => /\ again[1].ok
           /\ again[1].out = resolved[1].out

\* A text with leading whitespace and a carriage return before its line feed
\* has been preprocessed to its trimmed line, and preprocessed again.
C12_Witness ==
    /\ source = Data(<<" ", "x", "\r", "\n">>)
    /\ resolved = <<Ok(<<"x", "\n">>, <<>>)>>
    /\ again = resolved

\* What the lines resolve to, one after the other: a line of text is its
\* trimmed self, an include line is what its file resolves to, each followed
\* by a line feed.
RECURSIVE Replaced(_)
Replaced(lines) ==
    IF lines = <<>> THEN <<>>
    ELSE LET line == Trim(Head(lines))
         IN (IF StartsWith(line, INCLUDE_INSTRUCTION)
             THEN to_string(Path(IncludePath(line)[1])).out
             ELSE line) \o <<"\n">> \o Replaced(Tail(lines))

\* C13: file a, whose only line is #include "b", resolves to the X of file b
\* followed by the line feed of b's line and the line feed of the include
\* line; no resolved text has a line starting with #include; every include
\* line of a resolved inline text stands replaced by what its file resolves to.
C13_SimpleInclude ==
    /\ (source = Path(<<"a">>) /\ resolved # <<>>)
          => resolved[1] = Ok(<<"X", "\n", "\n">>,
                              <<GLSL_PATH \o <<"a">>, GLSL_PATH \o <<"b">> >>)
    /\ (resolved # <<>> /\ resolved[1].ok)
          => /\ IncludeLines(resolved[1].out) = {}
             /\ source.kind = "Data"
                   => resolved[1].out = Replaced(Lines(source.text))

\* File a has been resolved.
C13_Witness ==
    /\ source = Path(<<"a">>)
    /\ resolved # <<>>
    /\ resolved[1].ok
    /\ resolved[1].out = <<"X", "\n", "\n">>

\* C14 as stated: an include line whose path has an opening quote and no
\* closing quote fails with the #include syntax error and loads no file.
C14_UnclosedQuoteFails ==
    (/\ source.kind = "Data"
     /\ resolved # <<>>
     /\ IncludeLines(source.text) # {}
     /\ Quotes(FirstInclude(source.text)) = 1)
        => resolved[1] = Err("#include syntax error", <<>>)

\* C14: an include line without any double quote fails with the #include
\* syntax error and no file is asked of the data files for it; an include
\* line with an opening quote alone is taken as a directive, and the file
\* named by the text after the quote is asked for.
C14_UnquotedFails ==
    (/\ source.kind = "Data"
     /\ resolved # <<>>
     /\ IncludeLines(source.text) # {})
        => LET line == FirstInclude(source.text)
           IN /\ Quotes(line) = 0
                    => resolved[1] = Err("#include syntax error", <<>>)
              /\ Quotes(line) = 1
                    => /\ Cardinality(IncludeLines(source.text)) = 1
                             => resolved[1].err # "#include syntax error"
                       /\ resolved[1].loads # <<>>
                       /\ resolved[1].loads[1] =
                              GLSL_PATH \o SubSeq(line, IndexOf(line, "\"") + 1, Len(line))

\* An include line without quotes has been resolved, after a line of text.
C14_Witness ==
    /\ source = Data(<<"x", "\n", "#include", "b">>)
    /\ resolved = <<Err("#include syntax error", <<>>)>>

------------------------------------------------------------------------------
(* The shader build: properties                                              *)

\* The names of the driver objects of a kind.
ObjectsOf(kind) == {i \in 1..Len(objects) : objects[i].kind = kind}

\* The driver calls of a name made so far.
CallsOf(call) == {i \in 1..Len(glCalls) : glCalls[i].call = call}

\* The vertex stage did not compile.
VertexCompileFailed == \E i \in ObjectsOf("Vertex") : ~objects[i].status

\* text has the atoms of part in it, one after the other.
Contains(text, part) ==
    \E i \in 1..(Len(text) - Len(part) + 1) :
        SubSeq(text, i, i + Len(part) - 1) = part

\* After a vertex compile failure nothing more was compiled, no link was
\* tried and no program object exists.
NothingAfterVertex ==
    /\ bpc = "done"
    /\ buildRet.tag = "err"
    /\ ObjectsOf("Fragment") = {}
    /\ Cardinality(CallsOf("compile_shader")) = 1
    /\ CallsOf("create_program") = {}
    /\ CallsOf("link_program") = {}
    /\ ObjectsOf("Program") = {}

C16_StagesDeletedAfterLink ==
    \A i \in CallsOf("link_program") :
        /\ {glCalls[k].arg : k \in CallsOf("attach_shader")} = {vertshader, fragshader}
        /\ \A sh \in {vertshader, fragshader} :
              /\ ~objects[sh].live
              /\ \E j \in (i + 1)..Len(glCalls) : glCalls[j] = Call("delete_shader", sh, 0)
        /\ \A sh \in ObjectsOf("Vertex") \cup ObjectsOf("Fragment") : ~objects[sh].live

\* The link has failed and build has returned the link error.
C16_Witness ==
    /\ CallsOf("link_program") # {}
    /\ buildRet = BuildErr(<<"failed to link shader program">>)
    /\ \E i \in ObjectsOf("Program") : ~objects[i].status
    /\ ~objects[vertshader].live
    /\ ~objects[fragshader].live

\* The sources have been composed.
Composed == bpc \in {"compile_vert", "compile_frag", "link"} \/ glCalls # <<>>

\* C17: the final source of each stage, which is the source the compiler is
\* given, is the generated prologue, then the caller's prepend text, then
\* the preprocessed body; its first line is the #version line; both stages
\* have the same prologue and prepend text.
C17_FinalSource ==
    Composed
        => /\ vertdata = Prologue(glsl) \o builder.prepend \o to_string(builder.vert).out
           /\ fragdata = Prologue(glsl) \o builder.prepend \o to_string(builder.frag).out
           /\ Lines(vertdata)[1] = <<"#version ">> \o Decimal(glsl)
           /\ Lines(fragdata)[1] = <<"#version ">> \o Decimal(glsl)
           /\ Decimal(glsl) \in {<<"4", "6", "0">>, <<"3", "3", "0">>}
           /\ \A i \in ObjectsOf("Vertex") : objects[i].source = vertdata
           /\ \A i \in ObjectsOf("Fragment") : objects[i].source = fragdata

\* Both stages of a build with prepend text, at version 3.3, have been given
\* to the compiler.
C17_Witness ==
    /\ builder.prepend = <<"#define P", "\n">>
    /\ builder.vert = Data(<<"x", "\n">>)
    /\ glsl = 330
    /\ ObjectsOf("Fragment") # {}
    /\ objects[vertshader].source =
          <<"#version ", "3", "3", "0", "\n", "\n",
            "#define GLSL_VERSION ", "3", "3", "0", "\n",
            "#define HAS_GL_ARB_shader_subroutine 1", "\n",
            "#define P", "\n", "x", "\n">>

\* The C entry points.
CEntries == {"gl_program_backend", "gl_program_vert_frag_string"}

\* C20: a C entry point returns the handle of a program that linked, or the
\* process is aborted: when the context is not published, when a text is not
\* UTF-8, when a source does not resolve, a stage does not compile or the
\* program does not link, nothing is returned to the C caller.
C20_HandleOrAbort ==
    entry \in CEntries
        => /\ bpc # "done" => cRet = NoReturn /\ ~aborted
           /\ bpc = "done"
                 => \/ /\ cRet.tag = "returned"
                       /\ ~aborted
                       /\ CONTEXT # <<>>
                       /\ buildRet.tag = "ok"
                       /\ cRet.value = buildRet.program
                       /\ cRet.value \in ObjectsOf("Program")
                       /\ objects[cRet.value].status
                    \/ /\ cRet = Abort
                       /\ aborted
                       /\ buildRet.tag # "ok"

\* gl_program_backend has aborted on a program that did not link.
C20_Witness ==
    /\ entry = "gl_program_backend"
    /\ bpc = "done"
    /\ buildRet = BuildErr(<<"failed to link shader program">>)
    /\ cRet = Abort
    /\ aborted

------------------------------------------------------------------------------
(* Drawing: properties                                                       *)

\* draw_rect has returned.
DrawReturned == dpc = "idle" /\ drawRet # "none"

\* C18 as stated: when draw_rect has returned, with Ok or with an error, the
\* square vertex array and the solid uniform buffer it bound are bound no
\* more: every bind made has its unbind.
C18_NoBindingRemains ==
    DrawReturned
        => /\ bound.vao # "vao_square"
           /\ bound.ubo # "buffer_solid"

\* C19: a draw_rect that returned Ok made exactly one draw call, with the
\* solid program in use and the square vertex array bound; a draw_rect that
\* returned an error made none.
C19_OneDrawCall ==
    /\ Len(drawn) <= 1
    /\ Len(drawn) = Cardinality({i \in 1..Len(drawLog) : drawLog[i] = "draw_arrays"})
    /\ \A i \in 1..Len(drawn) :
          /\ drawn[i].program = "program_solid"
          /\ drawn[i].vao = "vao_square"
    /\ DrawReturned => (drawRet = "ok" <=> Len(drawn) = 1)
    /\ DrawReturned => (drawRet = "err" <=> Len(drawn) = 0)

\* draw_rect(0, 0, 10, 10, white) has returned Ok.
C19_Witness ==
    /\ DrawReturned
    /\ drawRet = "ok"
    /\ uniform = SolidUniform(0, 0, 10, 10, <<1, 1, 1, 1>>)
    /\ bufferSolid = <<10, 0, 0, 0, 10, 0, -1, -1, 1, 1, 1, 1, 1>>
    /\ drawn = <<[program |-> "program_solid", vao |-> "vao_square",
                  ubo |-> "buffer_solid"]>>

------------------------------------------------------------------------------
(* Currency and the mutex: properties                                        *)

\* The steps whose driver call succeeded in changing who is current.
CurrencyOps == {"new_ok", "lock_ok", "guard_release_ok", "scdrop_ok"}

\* C21 as stated: every change of currency is made by a thread that holds
\* the SafeContext mutex, the release-current of SafeContext::new included.
C21_CurrencyUnderMutex ==
    /\ (last.op # "init" /\ current # last.pre) => last.op \in CurrencyOps
    /\ last.op \in CurrencyOps => last.held # {}

\* C21: lock() makes current after it acquired the mutex, a guard's drop
\* releases current before it releases the mutex, SafeContext's drop makes
\* current after it acquired the mutex; the release-current of
\* SafeContext::new is made with no mutex held, before its mutex exists.
C21_CurrencyUnderMutexButNew ==
    /\ (last.op # "init" /\ current # last.pre) => last.op \in CurrencyOps
    /\ last.op = "lock_ok"
          => on[last.t] \in last.held /\ mutexHolder[on[last.t]] = last.t
    /\ last.op = "guard_release_ok"
          => on[last.t] \in last.held /\ mutexHolder[on[last.t]] = last.t
    /\ last.op = "scdrop_ok" => last.held # {}
    /\ last.op = "new_ok" => last.held = {}

\* A guard's drop has just released the context and still holds the mutex.
C21_Witness ==
    /\ last.op = "guard_release_ok"
    /\ current # last.pre
    /\ mutexHolder[on[last.t]] = last.t
    /\ pc[last.t] = "unlocking"

------------------------------------------------------------------------------
(* Blocking in lock(): properties                                            *)

\* While a thread holds the mutex of a SafeContext, in lock() or with a
\* guard, every other thread that called lock() on it is still waiting.
OthersWait ==
    \A t \in Threads, u \in Threads :
        (/\ u # t
         /\ on[t] # None
         /\ on[u] = on[t]
         /\ pc[t] \in {"lock_mk", "guard", "unlocking", "drop_mk"})
            => pc[u] = "lock_wait"

------------------------------------------------------------------------------
(* Lines that are not include directives: properties                         *)

\* The lines, each followed by one line feed.
RECURSIVE Joined(_)
Joined(lines) ==
    IF lines = <<>> THEN <<>> ELSE Head(lines) \o <<"\n">> \o Joined(Tail(lines))

\* An inline text without include lines has been resolved.
PlainResolved ==
    /\ source.kind = "Data"
    /\ IncludeLines(source.text) = {}
    /\ resolved # <<>>

------------------------------------------------------------------------------
(* Include cycles: properties                                                *)

\* The files named by the include lines of file f.
IncludedBy(f) ==
    IF f \in DOMAIN Files /\ IsUtf8(Files[f])
    THEN {GLSL_PATH \o IncludePath(Trim(Lines(Files[f])[i]))[1] :
             i \in {j \in IncludeLines(Files[f]) :
                       IncludePath(Trim(Lines(Files[f])[j])) # <<>>}}
    ELSE {}

\* The files reached from those of S in at most n includes.
RECURSIVE ReachFrom(_, _)
ReachFrom(S, n) ==
    IF n = 0 THEN S
    ELSE ReachFrom(S \cup UNION {IncludedBy(f) : f \in S}, n - 1)

\* The include graph reachable from file f has a cycle.
Cyclic(f) ==
    LET n == Cardinality(DOMAIN Files)
    IN \E g \in ReachFrom({f}, n) : g \in ReachFrom(IncludedBy(g), n)

\* The resolution of a file source has ended or has been found to recurse
\* without end.
FileResolved == source.kind = "Path" /\ resolved # <<>>

\* The recursion of load_file does not return.
Unending == resolved[1].err = "stack overflow"

\* C24 as stated: the resolution of a file returns, with text or an error,
\* when the include graph reachable from it has no cycle, and never returns
\* when it has one.
C24_UnendingIffCyclic ==
    FileResolved => (Unending <=> Cyclic(GLSL_PATH \o source.text))

\* C24: the resolution of a file returns when the include graph reachable
\* from it has no cycle; with a cycle it recurses without end when the cycle
\* is followed (p and q, which include each other; c, which includes
\* itself), and returns the error of an include line that fails before the
\* line closing the cycle is read (d); there is no error for a cycle.
C24_UnendingOnlyIfCyclic ==
    FileResolved
        => /\ ~Cyclic(GLSL_PATH \o source.text) => ~Unending
           /\ source.text \in {<<"p">>, <<"q">>, <<"c">>} => Unending
           /\ source.text = <<"d">>
                 => resolved[1] = Err("read", <<GLSL_PATH \o <<"d">>, GLSL_PATH \o <<"m">> >>)
           /\ resolved[1].err \in {"", "read", "utf8", "#include syntax error",
                                   "stack overflow"}

\* File p, which includes q, which includes p, has been resolved without end.
C24_Witness ==
    /\ source = Path(<<"p">>)
    /\ resolved # <<>>
    /\ Unending
    /\ Cyclic(GLSL_PATH \o <<"p">>)
    /\ ~Cyclic(GLSL_PATH \o <<"a">>)

------------------------------------------------------------------------------
(* Sources before GPU objects: properties                                    *)

\* The error of resolving src, for the sources that do not resolve: the
\* absent source, the missing file m, the file u that is not UTF-8 and the
\* inline text whose include line has no quoted path.
SourceError(src) ==
    CASE src = NoSource -> <<"no shader source defined!">>
      [] src = Path(<<"m">>) -> <<"read">>
      [] src = Path(<<"u">>) -> <<"utf8">>
      [] src = Data(<<"#include", "b">>) -> <<"#include syntax error">>
      [] OTHER -> <<>>

\* The driver has not been called and holds no object.
NoGpuObject == objects = <<>> /\ glCalls = <<>>

\* C25: build resolves the vertex source and then the fragment source before
\* it creates any GPU object: while the sources are resolved the driver has
\* not been called, a build whose vertex source (or else fragment source)
\* does not resolve returns the error of that source with no shader stage and
\* no program created, and a returned Shader names no absent source.
C25_SourcesBeforeObjects ==
    /\ bpc \in {"resolve_vert", "resolve_frag", "compose"} => NoGpuObject
    /\ (bpc = "done" /\ buildRet # NotBuilt /\ SourceError(builder.vert) # <<>>)
          => buildRet = BuildErr(SourceError(builder.vert)) /\ NoGpuObject
    /\ (bpc = "done" /\ buildRet # NotBuilt /\ SourceError(builder.vert) = <<>>
           /\ SourceError(builder.frag) # <<>>)
          => buildRet = BuildErr(SourceError(builder.frag)) /\ NoGpuObject
    /\ buildRet.tag = "ok"
          => /\ <<"NONE">> \notin {buildRet.vertname, buildRet.fragname}
             /\ NoSource \notin {builder.vert, builder.frag}

\* A build whose vertex source resolved and whose fragment source is absent
\* has returned.
C25_Witness ==
    /\ bpc = "done"
    /\ builder.vert = Path(<<"a">>)
    /\ builder.frag = NoSource
    /\ vertdata = to_string(Path(<<"a">>)).out
    /\ vertdata # <<>>
    /\ buildRet = BuildErr(<<"no shader source defined!">>)
    /\ NoGpuObject

------------------------------------------------------------------------------
(* Pushes and drains interleaved: properties                                 *)

\* C26: across the interleavings of pushes and execute_messages calls every
\* pushed message is either still queued or has had its destroy call issued
\* once, never both and never twice; a destroy call is issued by the thread
\* holding the queue lock, a push enters the queue while no drain holds the
\* lock, and a drain returns only with the queue empty, so that a message is
\* executed by the first drain that takes the lock after its push.
C26_ExactlyOnce ==
    /\ pushed = DestroyedMessages \o MESSAGE_QUEUE
    /\ \A i \in DOMAIN pushed, j \in DOMAIN pushed :
          pushed[i].handle = pushed[j].handle => i = j
    /\ last.op = "destroy"
          => /\ queueLock = last.t
             /\ destroyed[Len(destroyed)].by = last.t
    /\ last.op = "push" => queueLock = None /\ pc[last.t] = "idle"
    /\ last.op = "drain_return" => MESSAGE_QUEUE = <<>> /\ DestroyedMessages = pushed
    /\ \A t \in Threads : pc[t] = "draining" <=> queueLock = t

\* Two messages were pushed and each was executed by another thread's drain,
\* the second drain having returned.
C26_Witness ==
    /\ last.op = "drain_return"
    /\ Len(pushed) = 2
    /\ Len(destroyed) = 2
    /\ destroyed[1].by # destroyed[2].by
    /\ destroyed[2].by = last.t
    /\ MESSAGE_QUEUE = <<>>

------------------------------------------------------------------------------
(* Guards of two SafeContext values: properties                              *)

\* The threads holding a live guard of any SafeContext built over the Context.
AllGuardHolders == UNION {GuardHolders(s) : s \in SafeContexts}

\* C27: guards exclude each other for the Context and not only for one
\* SafeContext: a guard of one SafeContext and a guard of another SafeContext
\* built over the same Context are never live at the same time, and two
\* threads holding guards never both have the context current.
C27_GuardExclusionPerContext ==
    /\ Cardinality(AllGuardHolders) <= 1
    /\ Cardinality(AllGuardHolders \cap current) <= 1

------------------------------------------------------------------------------
(* Failures under the mutex: properties                                      *)

\* The guard of the thread that took the last step was dropped with a failed
\* release-current.
ReleaseFailed == last.op = "guard_unlock" /\ guardLog[last.t][1] = "release_err"

\* C28: a make-current failure in lock() and a release-current failure in a
\* guard's drop leave the SafeContext's mutex free and poisoned, and a
\* poisoned mutex stays poisoned; no thread has the mutex or a guard of a
\* poisoned SafeContext, a lock() that finds the poison panics without a guard
\* and without a change of currency, and the drop of a poisoned SafeContext
\* panics without making the context current.
C28_FailurePermanent ==
    /\ [](/\ (last.op = "lock_err" \/ ReleaseFailed)
                => /\ last.held # {}
                   /\ \A s \in last.held : poisoned[s] /\ mutexHolder[s] = None
          /\ \A s \in SafeContexts :
                poisoned[s]
                   => /\ mutexHolder[s] = None
                      /\ \A t \in Threads :
                            on[t] = s => pc[t] = "lock_wait"
          /\ last.op \in {"lock_poisoned", "scdrop_poisoned"}
                => /\ pc[last.t] = "panicked"
                   /\ current = last.pre
                   /\ on[last.t] = None
          /\ last.op = "scdrop_ok" => \A s \in last.held : ~poisoned[s])
    /\ [][\A s \in SafeContexts : poisoned[s] => poisoned'[s]]_vars

\* A guard's drop failed at release-current, a later lock() on the
\* SafeContext panicked at the poisoned mutex, and the drop of the
\* SafeContext has just panicked too, the context still current to the
\* thread whose release failed.
C28_Witness ==
    /\ last.op = "scdrop_poisoned"
    /\ scState = [s \in SafeContexts |-> IF s = "sc1" THEN "dead" ELSE "unborn"]
    /\ poisoned["sc1"]
    /\ \E t \in Threads \ {last.t} :
          /\ guardLog[t] = <<"release_err", "unlock">>
          /\ current = {t}
          /\ \A u \in Threads : pc[u] = "panicked"

------------------------------------------------------------------------------
(* GPU objects left by build: properties                                     *)

\* The objects the driver still holds.
LiveObjects == {i \in 1..Len(objects) : objects[i].live}

\* C29: after build has returned no GPU object it created is left dangling:
\* after a success the linked program is the one object that remains and no
\* stage remains, and after a failure (vertex compile, fragment compile,
\* program creation, link) no stage and no program remains undeleted.
C29_NothingDangling ==
    (bpc = "done" /\ buildRet # NotBuilt)
        => IF buildRet.tag = "ok"
           THEN /\ LiveObjects = {buildRet.program}
                /\ objects[buildRet.program].kind = "Program"
           ELSE LiveObjects = {}

====
